---- MODULE Spec2Model ----
(***************************************************************************)
(* Model of chying_agent's retry/escalation orchestrator:                  *)
(*   RetryStrategy.__init__, get_llm_pair, format_attempt_history and      *)
(*   extract_attempt_summary (retry_strategy.py), with the model factory   *)
(*   functions they call (model.py, model_ollama.py).                      *)
(*                                                                         *)
(* A Python str is a sequence of Unicode code points (naturals), so that   *)
(* str.lower(), the `in` substring test, f-string formatting and           *)
(* "".join are computed, not assumed.                                      *)
(***************************************************************************)
EXTENDS Integers, Sequences, FiniteSets, TLC

VARIABLES
    pc,               \* position of the run
    config,           \* AgentConfig: llm_backend and the two Ollama model names
    main_llm,         \* self.main_llm: id of the handle, 0 before it is bound
    advisor_llm,      \* self.advisor_llm: id of the handle, 0 before it is bound
    created,          \* ids of the handles the factories returned, in creation order
    provider_error,   \* what the failing factory call raised ("none" if none did)
    error,            \* what RetryStrategy(config) raised to its caller
    returned,         \* index -> what get_llm_pair returned for it most recently
    ncalls,           \* number of get_llm_pair calls made
    stable,           \* every repeated call returned the same two handles as before
    retry_index,      \* the session driver's loop index
    attempt_history,  \* the session's list of attempt summaries
    history_text,     \* the text format_attempt_history returned most recently
    final_state,      \* the raw result given to extract_attempt_summary
    summary           \* what extract_attempt_summary returned (or that it raised)

vars == <<pc, config, main_llm, advisor_llm, created, provider_error, error, returned,
          ncalls, stable, retry_index, attempt_history, history_text, final_state, summary>>

-----------------------------------------------------------------------------
(* Bounds of the model.                                                    *)

\* largest retry index passed to get_llm_pair
MaxIndex == 5
\* most get_llm_pair calls in one run
MaxCalls == 6

-----------------------------------------------------------------------------
(* String literals of the program, as code points.                         *)

\* retry_strategy.py:115: "## 📜 历史尝试记录（请避免重复这些失败的方法）\n"
STR_HEADING ==
    <<35, 35, 32, 128220, 32, 21382, 21490, 23581, 35797, 35760, 24405, 65288, 35831, 36991, 20813, 37325,
      22797, 36825, 20123, 22833, 36133, 30340, 26041, 27861, 65289, 10>>
\* retry_strategy.py:124: "### 尝试 "
STR_SECTION == <<35, 35, 35, 32, 23581, 35797, 32>>
\* retry_strategy.py:124: "："
STR_COLON == <<65306>>
\* retry_strategy.py:125: "- **尝试次数**: "
STR_COUNT == <<45, 32, 42, 42, 23581, 35797, 27425, 25968, 42, 42, 58, 32>>
\* retry_strategy.py:128: "- **已失败的方法**:\n"
STR_FAILED_HEAD == <<45, 32, 42, 42, 24050, 22833, 36133, 30340, 26041, 27861, 42, 42, 58, 10>>
\* retry_strategy.py:130: "  - ❌ "
STR_FAILED_BULLET == <<32, 32, 45, 32, 10060, 32>>
\* retry_strategy.py:133: "- **关键发现**:\n"
STR_FINDINGS_HEAD == <<45, 32, 42, 42, 20851, 38190, 21457, 29616, 42, 42, 58, 10>>
\* retry_strategy.py:135: "  - 💡 "
STR_FINDING_BULLET == <<32, 32, 45, 32, 128161, 32>>
\* retry_strategy.py:140: "**⚠️ 重要提示**: 上述方法均已失败，请尝试完全不同的攻击角度！\n"
STR_NOTE ==
    <<42, 42, 9888, 65039, 32, 37325, 35201, 25552, 31034, 42, 42, 58, 32, 19978, 36848, 26041,
      27861, 22343, 24050, 22833, 36133, 65292, 35831, 23581, 35797, 23436, 20840, 19981, 21516, 30340, 25915, 20987,
      35282, 24230, 65281, 10>>
\* retry_strategy.py:119: "未知策略"
STR_UNKNOWN_STRATEGY == <<26410, 30693, 31574, 30053>>
\* retry_strategy.py:81: " (主) + "
STR_PRIMARY == <<32, 40, 20027, 41, 32, 43, 32>>
\* retry_strategy.py:81: " (顾问)"
STR_ADVISOR == <<32, 40, 39038, 38382, 41>>
\* retry_strategy.py:83: " [重试 "
STR_RETRY_OPEN == <<32, 91, 37325, 35797, 32>>
\* retry_strategy.py:83: "]"
STR_RETRY_CLOSE == <<93>>
\* retry_strategy.py:74: "DeepSeek"
STR_DEEPSEEK == <<68, 101, 101, 112, 83, 101, 101, 107>>
\* retry_strategy.py:75: "MiniMax"
STR_MINIMAX == <<77, 105, 110, 105, 77, 97, 120>>
\* config.py:16: "deepseek-r1:32b"
STR_OLLAMA_MAIN == <<100, 101, 101, 112, 115, 101, 101, 107, 45, 114, 49, 58, 51, 50, 98>>
\* config.py:17: "qwen3:latest"
STR_OLLAMA_ADVISOR == <<113, 119, 101, 110, 51, 58, 108, 97, 116, 101, 115, 116>>
\* retry_strategy.py:163: "失败"
KW_SHIBAI == <<22833, 36133>>
\* retry_strategy.py:163: "错误"
KW_CUOWU == <<38169, 35823>>
\* retry_strategy.py:163: "error"
KW_ERROR == <<101, 114, 114, 111, 114>>
\* retry_strategy.py:163: "failed"
KW_FAILED == <<102, 97, 105, 108, 101, 100>>
\* str(None): "None"
STR_NONE == <<78, 111, 110, 101>>
\* the key of the one-key dict: "status"
STR_STATUS == <<115, 116, 97, 116, 117, 115>>
\* object.__repr__: "<", " object at 0x", ">"
STR_OBJ_OPEN == <<60>>
STR_OBJ_AT == <<32, 111, 98, 106, 101, 99, 116, 32, 97, 116, 32, 48, 120>>
STR_OBJ_CLOSE == <<62>>
\* the qualified names of the message classes: "__main__.AIMessage",
\* "__main__.NoneCallsMessage", "__main__.HumanMessage"
QUAL_AI == <<95, 95, 109, 97, 105, 110, 95, 95, 46, 65, 73, 77, 101, 115, 115, 97, 103, 101>>
QUAL_NONECALLS ==
    <<95, 95, 109, 97, 105, 110, 95, 95, 46, 78, 111, 110, 101, 67, 97, 108, 108, 115, 77, 101, 115, 115, 97, 103, 101>>
QUAL_HUMAN == <<95, 95, 109, 97, 105, 110, 95, 95, 46, 72, 117, 109, 97, 110, 77, 101, 115, 115, 97, 103, 101>>
\* sample: U+200F then "ailed": repr writes the escape \u200f, and the text reads "failed"
TXT_RLM_AILED == <<8207, 97, 105, 108, 101, 100>>
\* sample: "FA" U+0130 "LED": lower() gives "fai" U+0307 "led"
TXT_DOTTED_I == <<70, 65, 304, 76, 69, 68>>
\* sample: "a" U+3000 "b"
TXT_WIDE_SPACE == <<97, 12288, 98>>
\* sample: "it's"
TXT_ITS == <<105, 116, 39, 115>>
\* sample: "a\nb\\", a newline and a backslash
TXT_ESCAPES == <<97, 10, 98, 92>>
\* sample: "tool call succeeded"
TXT_SUCCEEDED ==
    <<116, 111, 111, 108, 32, 99, 97, 108, 108, 32, 115, 117, 99, 99, 101, 101,
      100, 101, 100>>
\* sample: "tool call failed: timeout"
TXT_FAILED_TIMEOUT ==
    <<116, 111, 111, 108, 32, 99, 97, 108, 108, 32, 102, 97, 105, 108, 101, 100,
      58, 32, 116, 105, 109, 101, 111, 117, 116>>
\* sample: "错误: invalid input"
TXT_CUOWU_INPUT ==
    <<38169, 35823, 58, 32, 105, 110, 118, 97, 108, 105, 100, 32, 105, 110, 112, 117,
      116>>
\* sample: "ERROR 500"
TXT_ERROR_UPPER == <<69, 82, 82, 79, 82, 32, 53, 48, 48>>
\* sample: "Login FaiLed"
TXT_FAILED_MIXED == <<76, 111, 103, 105, 110, 32, 70, 97, 105, 76, 101, 100>>
\* sample: "扫描失败"
TXT_SHIBAI == <<25195, 25551, 22833, 36133>>
\* sample: "ok"
TXT_OK == <<111, 107>>
\* sample: "fail erro"
TXT_NEAR_MISS == <<102, 97, 105, 108, 32, 101, 114, 114, 111>>
\* sample: "SQLi in /login"
TXT_SQLI == <<83, 81, 76, 105, 32, 105, 110, 32, 47, 108, 111, 103, 105, 110>>
\* sample: "2025-01-01"
TXT_T0 == <<50, 48, 50, 53, 45, 48, 49, 45, 48, 49>>

-----------------------------------------------------------------------------
(* Python strings.                                                         *)

\* the code points lo..hi for which str.isprintable() is false (Unicode 14.0,
\* the database of CPython 3.11): categories Cc, Cf, Cs, Co, Cn, Zl, Zp and Zs
\* but the ASCII space
UNPRINTABLE_RANGES ==
    { <<0, 31>>, <<127, 160>>, <<173, 173>>, <<888, 889>>, <<896, 899>>, <<907, 907>>,
      <<909, 909>>, <<930, 930>>, <<1328, 1328>>, <<1367, 1368>>, <<1419, 1420>>, <<1424, 1424>>,
      <<1480, 1487>>, <<1515, 1518>>, <<1525, 1541>>, <<1564, 1564>>, <<1757, 1757>>,
      <<1806, 1807>>, <<1867, 1868>>, <<1970, 1983>>, <<2043, 2044>>, <<2094, 2095>>,
      <<2111, 2111>>, <<2140, 2141>>, <<2143, 2143>>, <<2155, 2159>>, <<2191, 2199>>,
      <<2274, 2274>>, <<2436, 2436>>, <<2445, 2446>>, <<2449, 2450>>, <<2473, 2473>>,
      <<2481, 2481>>, <<2483, 2485>>, <<2490, 2491>>, <<2501, 2502>>, <<2505, 2506>>,
      <<2511, 2518>>, <<2520, 2523>>, <<2526, 2526>>, <<2532, 2533>>, <<2559, 2560>>,
      <<2564, 2564>>, <<2571, 2574>>, <<2577, 2578>>, <<2601, 2601>>, <<2609, 2609>>,
      <<2612, 2612>>, <<2615, 2615>>, <<2618, 2619>>, <<2621, 2621>>, <<2627, 2630>>,
      <<2633, 2634>>, <<2638, 2640>>, <<2642, 2648>>, <<2653, 2653>>, <<2655, 2661>>,
      <<2679, 2688>>, <<2692, 2692>>, <<2702, 2702>>, <<2706, 2706>>, <<2729, 2729>>,
      <<2737, 2737>>, <<2740, 2740>>, <<2746, 2747>>, <<2758, 2758>>, <<2762, 2762>>,
      <<2766, 2767>>, <<2769, 2783>>, <<2788, 2789>>, <<2802, 2808>>, <<2816, 2816>>,
      <<2820, 2820>>, <<2829, 2830>>, <<2833, 2834>>, <<2857, 2857>>, <<2865, 2865>>,
      <<2868, 2868>>, <<2874, 2875>>, <<2885, 2886>>, <<2889, 2890>>, <<2894, 2900>>,
      <<2904, 2907>>, <<2910, 2910>>, <<2916, 2917>>, <<2936, 2945>>, <<2948, 2948>>,
      <<2955, 2957>>, <<2961, 2961>>, <<2966, 2968>>, <<2971, 2971>>, <<2973, 2973>>,
      <<2976, 2978>>, <<2981, 2983>>, <<2987, 2989>>, <<3002, 3005>>, <<3011, 3013>>,
      <<3017, 3017>>, <<3022, 3023>>, <<3025, 3030>>, <<3032, 3045>>, <<3067, 3071>>,
      <<3085, 3085>>, <<3089, 3089>>, <<3113, 3113>>, <<3130, 3131>>, <<3141, 3141>>,
      <<3145, 3145>>, <<3150, 3156>>, <<3159, 3159>>, <<3163, 3164>>, <<3166, 3167>>,
      <<3172, 3173>>, <<3184, 3190>>, <<3213, 3213>>, <<3217, 3217>>, <<3241, 3241>>,
      <<3252, 3252>>, <<3258, 3259>>, <<3269, 3269>>, <<3273, 3273>>, <<3278, 3284>>,
      <<3287, 3292>>, <<3295, 3295>>, <<3300, 3301>>, <<3312, 3312>>, <<3315, 3327>>,
      <<3341, 3341>>, <<3345, 3345>>, <<3397, 3397>>, <<3401, 3401>>, <<3408, 3411>>,
      <<3428, 3429>>, <<3456, 3456>>, <<3460, 3460>>, <<3479, 3481>>, <<3506, 3506>>,
      <<3516, 3516>>, <<3518, 3519>>, <<3527, 3529>>, <<3531, 3534>>, <<3541, 3541>>,
      <<3543, 3543>>, <<3552, 3557>>, <<3568, 3569>>, <<3573, 3584>>, <<3643, 3646>>,
      <<3676, 3712>>, <<3715, 3715>>, <<3717, 3717>>, <<3723, 3723>>, <<3748, 3748>>,
      <<3750, 3750>>, <<3774, 3775>>, <<3781, 3781>>, <<3783, 3783>>, <<3790, 3791>>,
      <<3802, 3803>>, <<3808, 3839>>, <<3912, 3912>>, <<3949, 3952>>, <<3992, 3992>>,
      <<4029, 4029>>, <<4045, 4045>>, <<4059, 4095>>, <<4294, 4294>>, <<4296, 4300>>,
      <<4302, 4303>>, <<4681, 4681>>, <<4686, 4687>>, <<4695, 4695>>, <<4697, 4697>>,
      <<4702, 4703>>, <<4745, 4745>>, <<4750, 4751>>, <<4785, 4785>>, <<4790, 4791>>,
      <<4799, 4799>>, <<4801, 4801>>, <<4806, 4807>>, <<4823, 4823>>, <<4881, 4881>>,
      <<4886, 4887>>, <<4955, 4956>>, <<4989, 4991>>, <<5018, 5023>>, <<5110, 5111>>,
      <<5118, 5119>>, <<5760, 5760>>, <<5789, 5791>>, <<5881, 5887>>, <<5910, 5918>>,
      <<5943, 5951>>, <<5972, 5983>>, <<5997, 5997>>, <<6001, 6001>>, <<6004, 6015>>,
      <<6110, 6111>>, <<6122, 6127>>, <<6138, 6143>>, <<6158, 6158>>, <<6170, 6175>>,
      <<6265, 6271>>, <<6315, 6319>>, <<6390, 6399>>, <<6431, 6431>>, <<6444, 6447>>,
      <<6460, 6463>>, <<6465, 6467>>, <<6510, 6511>>, <<6517, 6527>>, <<6572, 6575>>,
      <<6602, 6607>>, <<6619, 6621>>, <<6684, 6685>>, <<6751, 6751>>, <<6781, 6782>>,
      <<6794, 6799>>, <<6810, 6815>>, <<6830, 6831>>, <<6863, 6911>>, <<6989, 6991>>,
      <<7039, 7039>>, <<7156, 7163>>, <<7224, 7226>>, <<7242, 7244>>, <<7305, 7311>>,
      <<7355, 7356>>, <<7368, 7375>>, <<7419, 7423>>, <<7958, 7959>>, <<7966, 7967>>,
      <<8006, 8007>>, <<8014, 8015>>, <<8024, 8024>>, <<8026, 8026>>, <<8028, 8028>>,
      <<8030, 8030>>, <<8062, 8063>>, <<8117, 8117>>, <<8133, 8133>>, <<8148, 8149>>,
      <<8156, 8156>>, <<8176, 8177>>, <<8181, 8181>>, <<8191, 8207>>, <<8232, 8239>>,
      <<8287, 8303>>, <<8306, 8307>>, <<8335, 8335>>, <<8349, 8351>>, <<8385, 8399>>,
      <<8433, 8447>>, <<8588, 8591>>, <<9255, 9279>>, <<9291, 9311>>, <<11124, 11125>>,
      <<11158, 11158>>, <<11508, 11512>>, <<11558, 11558>>, <<11560, 11564>>, <<11566, 11567>>,
      <<11624, 11630>>, <<11633, 11646>>, <<11671, 11679>>, <<11687, 11687>>, <<11695, 11695>>,
      <<11703, 11703>>, <<11711, 11711>>, <<11719, 11719>>, <<11727, 11727>>, <<11735, 11735>>,
      <<11743, 11743>>, <<11870, 11903>>, <<11930, 11930>>, <<12020, 12031>>, <<12246, 12271>>,
      <<12284, 12288>>, <<12352, 12352>>, <<12439, 12440>>, <<12544, 12548>>, <<12592, 12592>>,
      <<12687, 12687>>, <<12772, 12783>>, <<12831, 12831>>, <<42125, 42127>>, <<42183, 42191>>,
      <<42540, 42559>>, <<42744, 42751>>, <<42955, 42959>>, <<42962, 42962>>, <<42964, 42964>>,
      <<42970, 42993>>, <<43053, 43055>>, <<43066, 43071>>, <<43128, 43135>>, <<43206, 43213>>,
      <<43226, 43231>>, <<43348, 43358>>, <<43389, 43391>>, <<43470, 43470>>, <<43482, 43485>>,
      <<43519, 43519>>, <<43575, 43583>>, <<43598, 43599>>, <<43610, 43611>>, <<43715, 43738>>,
      <<43767, 43776>>, <<43783, 43784>>, <<43791, 43792>>, <<43799, 43807>>, <<43815, 43815>>,
      <<43823, 43823>>, <<43884, 43887>>, <<44014, 44015>>, <<44026, 44031>>, <<55204, 55215>>,
      <<55239, 55242>>, <<55292, 63743>>, <<64110, 64111>>, <<64218, 64255>>, <<64263, 64274>>,
      <<64280, 64284>>, <<64311, 64311>>, <<64317, 64317>>, <<64319, 64319>>, <<64322, 64322>>,
      <<64325, 64325>>, <<64451, 64466>>, <<64912, 64913>>, <<64968, 64974>>, <<64976, 65007>>,
      <<65050, 65055>>, <<65107, 65107>>, <<65127, 65127>>, <<65132, 65135>>, <<65141, 65141>>,
      <<65277, 65280>>, <<65471, 65473>>, <<65480, 65481>>, <<65488, 65489>>, <<65496, 65497>>,
      <<65501, 65503>>, <<65511, 65511>>, <<65519, 65531>>, <<65534, 65535>>, <<65548, 65548>>,
      <<65575, 65575>>, <<65595, 65595>>, <<65598, 65598>>, <<65614, 65615>>, <<65630, 65663>>,
      <<65787, 65791>>, <<65795, 65798>>, <<65844, 65846>>, <<65935, 65935>>, <<65949, 65951>>,
      <<65953, 65999>>, <<66046, 66175>>, <<66205, 66207>>, <<66257, 66271>>, <<66300, 66303>>,
      <<66340, 66348>>, <<66379, 66383>>, <<66427, 66431>>, <<66462, 66462>>, <<66500, 66503>>,
      <<66518, 66559>>, <<66718, 66719>>, <<66730, 66735>>, <<66772, 66775>>, <<66812, 66815>>,
      <<66856, 66863>>, <<66916, 66926>>, <<66939, 66939>>, <<66955, 66955>>, <<66963, 66963>>,
      <<66966, 66966>>, <<66978, 66978>>, <<66994, 66994>>, <<67002, 67002>>, <<67005, 67071>>,
      <<67383, 67391>>, <<67414, 67423>>, <<67432, 67455>>, <<67462, 67462>>, <<67505, 67505>>,
      <<67515, 67583>>, <<67590, 67591>>, <<67593, 67593>>, <<67638, 67638>>, <<67641, 67643>>,
      <<67645, 67646>>, <<67670, 67670>>, <<67743, 67750>>, <<67760, 67807>>, <<67827, 67827>>,
      <<67830, 67834>>, <<67868, 67870>>, <<67898, 67902>>, <<67904, 67967>>, <<68024, 68027>>,
      <<68048, 68049>>, <<68100, 68100>>, <<68103, 68107>>, <<68116, 68116>>, <<68120, 68120>>,
      <<68150, 68151>>, <<68155, 68158>>, <<68169, 68175>>, <<68185, 68191>>, <<68256, 68287>>,
      <<68327, 68330>>, <<68343, 68351>>, <<68406, 68408>>, <<68438, 68439>>, <<68467, 68471>>,
      <<68498, 68504>>, <<68509, 68520>>, <<68528, 68607>>, <<68681, 68735>>, <<68787, 68799>>,
      <<68851, 68857>>, <<68904, 68911>>, <<68922, 69215>>, <<69247, 69247>>, <<69290, 69290>>,
      <<69294, 69295>>, <<69298, 69375>>, <<69416, 69423>>, <<69466, 69487>>, <<69514, 69551>>,
      <<69580, 69599>>, <<69623, 69631>>, <<69710, 69713>>, <<69750, 69758>>, <<69821, 69821>>,
      <<69827, 69839>>, <<69865, 69871>>, <<69882, 69887>>, <<69941, 69941>>, <<69960, 69967>>,
      <<70007, 70015>>, <<70112, 70112>>, <<70133, 70143>>, <<70162, 70162>>, <<70207, 70271>>,
      <<70279, 70279>>, <<70281, 70281>>, <<70286, 70286>>, <<70302, 70302>>, <<70314, 70319>>,
      <<70379, 70383>>, <<70394, 70399>>, <<70404, 70404>>, <<70413, 70414>>, <<70417, 70418>>,
      <<70441, 70441>>, <<70449, 70449>>, <<70452, 70452>>, <<70458, 70458>>, <<70469, 70470>>,
      <<70473, 70474>>, <<70478, 70479>>, <<70481, 70486>>, <<70488, 70492>>, <<70500, 70501>>,
      <<70509, 70511>>, <<70517, 70655>>, <<70748, 70748>>, <<70754, 70783>>, <<70856, 70863>>,
      <<70874, 71039>>, <<71094, 71095>>, <<71134, 71167>>, <<71237, 71247>>, <<71258, 71263>>,
      <<71277, 71295>>, <<71354, 71359>>, <<71370, 71423>>, <<71451, 71452>>, <<71468, 71471>>,
      <<71495, 71679>>, <<71740, 71839>>, <<71923, 71934>>, <<71943, 71944>>, <<71946, 71947>>,
      <<71956, 71956>>, <<71959, 71959>>, <<71990, 71990>>, <<71993, 71994>>, <<72007, 72015>>,
      <<72026, 72095>>, <<72104, 72105>>, <<72152, 72153>>, <<72165, 72191>>, <<72264, 72271>>,
      <<72355, 72367>>, <<72441, 72703>>, <<72713, 72713>>, <<72759, 72759>>, <<72774, 72783>>,
      <<72813, 72815>>, <<72848, 72849>>, <<72872, 72872>>, <<72887, 72959>>, <<72967, 72967>>,
      <<72970, 72970>>, <<73015, 73017>>, <<73019, 73019>>, <<73022, 73022>>, <<73032, 73039>>,
      <<73050, 73055>>, <<73062, 73062>>, <<73065, 73065>>, <<73103, 73103>>, <<73106, 73106>>,
      <<73113, 73119>>, <<73130, 73439>>, <<73465, 73647>>, <<73649, 73663>>, <<73714, 73726>>,
      <<74650, 74751>>, <<74863, 74863>>, <<74869, 74879>>, <<75076, 77711>>, <<77811, 77823>>,
      <<78895, 82943>>, <<83527, 92159>>, <<92729, 92735>>, <<92767, 92767>>, <<92778, 92781>>,
      <<92863, 92863>>, <<92874, 92879>>, <<92910, 92911>>, <<92918, 92927>>, <<92998, 93007>>,
      <<93018, 93018>>, <<93026, 93026>>, <<93048, 93052>>, <<93072, 93759>>, <<93851, 93951>>,
      <<94027, 94030>>, <<94088, 94094>>, <<94112, 94175>>, <<94181, 94191>>, <<94194, 94207>>,
      <<100344, 100351>>, <<101590, 101631>>, <<101641, 110575>>, <<110580, 110580>>,
      <<110588, 110588>>, <<110591, 110591>>, <<110883, 110927>>, <<110931, 110947>>,
      <<110952, 110959>>, <<111356, 113663>>, <<113771, 113775>>, <<113789, 113791>>,
      <<113801, 113807>>, <<113818, 113819>>, <<113824, 118527>>, <<118574, 118575>>,
      <<118599, 118607>>, <<118724, 118783>>, <<119030, 119039>>, <<119079, 119080>>,
      <<119155, 119162>>, <<119275, 119295>>, <<119366, 119519>>, <<119540, 119551>>,
      <<119639, 119647>>, <<119673, 119807>>, <<119893, 119893>>, <<119965, 119965>>,
      <<119968, 119969>>, <<119971, 119972>>, <<119975, 119976>>, <<119981, 119981>>,
      <<119994, 119994>>, <<119996, 119996>>, <<120004, 120004>>, <<120070, 120070>>,
      <<120075, 120076>>, <<120085, 120085>>, <<120093, 120093>>, <<120122, 120122>>,
      <<120127, 120127>>, <<120133, 120133>>, <<120135, 120137>>, <<120145, 120145>>,
      <<120486, 120487>>, <<120780, 120781>>, <<121484, 121498>>, <<121504, 121504>>,
      <<121520, 122623>>, <<122655, 122879>>, <<122887, 122887>>, <<122905, 122906>>,
      <<122914, 122914>>, <<122917, 122917>>, <<122923, 123135>>, <<123181, 123183>>,
      <<123198, 123199>>, <<123210, 123213>>, <<123216, 123535>>, <<123567, 123583>>,
      <<123642, 123646>>, <<123648, 124895>>, <<124903, 124903>>, <<124908, 124908>>,
      <<124911, 124911>>, <<124927, 124927>>, <<125125, 125126>>, <<125143, 125183>>,
      <<125260, 125263>>, <<125274, 125277>>, <<125280, 126064>>, <<126133, 126208>>,
      <<126270, 126463>>, <<126468, 126468>>, <<126496, 126496>>, <<126499, 126499>>,
      <<126501, 126502>>, <<126504, 126504>>, <<126515, 126515>>, <<126520, 126520>>,
      <<126522, 126522>>, <<126524, 126529>>, <<126531, 126534>>, <<126536, 126536>>,
      <<126538, 126538>>, <<126540, 126540>>, <<126544, 126544>>, <<126547, 126547>>,
      <<126549, 126550>>, <<126552, 126552>>, <<126554, 126554>>, <<126556, 126556>>,
      <<126558, 126558>>, <<126560, 126560>>, <<126563, 126563>>, <<126565, 126566>>,
      <<126571, 126571>>, <<126579, 126579>>, <<126584, 126584>>, <<126589, 126589>>,
      <<126591, 126591>>, <<126602, 126602>>, <<126620, 126624>>, <<126628, 126628>>,
      <<126634, 126634>>, <<126652, 126703>>, <<126706, 126975>>, <<127020, 127023>>,
      <<127124, 127135>>, <<127151, 127152>>, <<127168, 127168>>, <<127184, 127184>>,
      <<127222, 127231>>, <<127406, 127461>>, <<127491, 127503>>, <<127548, 127551>>,
      <<127561, 127567>>, <<127570, 127583>>, <<127590, 127743>>, <<128728, 128732>>,
      <<128749, 128751>>, <<128765, 128767>>, <<128884, 128895>>, <<128985, 128991>>,
      <<129004, 129007>>, <<129009, 129023>>, <<129036, 129039>>, <<129096, 129103>>,
      <<129114, 129119>>, <<129160, 129167>>, <<129198, 129199>>, <<129202, 129279>>,
      <<129620, 129631>>, <<129646, 129647>>, <<129653, 129655>>, <<129661, 129663>>,
      <<129671, 129679>>, <<129709, 129711>>, <<129723, 129727>>, <<129734, 129743>>,
      <<129754, 129759>>, <<129768, 129775>>, <<129783, 129791>>, <<129939, 129939>>,
      <<129995, 130031>>, <<130042, 131071>>, <<173792, 173823>>, <<177977, 177983>>,
      <<178206, 178207>>, <<183970, 183983>>, <<191457, 194559>>, <<195102, 196607>>,
      <<201547, 917759>>, <<918000, 1114111>> }
\* str.lower() of one character, where it is another single character:
\* <<lo, hi, step, delta>> maps lo, lo + step, ..., hi to itself + delta
LOWER_RUNS ==
    { <<65, 90, 1, 32>>, <<192, 214, 1, 32>>, <<216, 222, 1, 32>>, <<256, 302, 2, 1>>,
      <<306, 310, 2, 1>>, <<313, 327, 2, 1>>, <<330, 374, 2, 1>>, <<376, 376, 1, -121>>,
      <<377, 381, 2, 1>>, <<385, 385, 1, 210>>, <<386, 388, 2, 1>>, <<390, 390, 1, 206>>,
      <<391, 391, 1, 1>>, <<393, 394, 1, 205>>, <<395, 395, 1, 1>>, <<398, 398, 1, 79>>,
      <<399, 399, 1, 202>>, <<400, 400, 1, 203>>, <<401, 401, 1, 1>>, <<403, 403, 1, 205>>,
      <<404, 404, 1, 207>>, <<406, 406, 1, 211>>, <<407, 407, 1, 209>>, <<408, 408, 1, 1>>,
      <<412, 412, 1, 211>>, <<413, 413, 1, 213>>, <<415, 415, 1, 214>>, <<416, 420, 2, 1>>,
      <<422, 422, 1, 218>>, <<423, 423, 1, 1>>, <<425, 425, 1, 218>>, <<428, 428, 1, 1>>,
      <<430, 430, 1, 218>>, <<431, 431, 1, 1>>, <<433, 434, 1, 217>>, <<435, 437, 2, 1>>,
      <<439, 439, 1, 219>>, <<440, 440, 1, 1>>, <<444, 444, 1, 1>>, <<452, 452, 1, 2>>,
      <<453, 453, 1, 1>>, <<455, 455, 1, 2>>, <<456, 456, 1, 1>>, <<458, 458, 1, 2>>,
      <<459, 475, 2, 1>>, <<478, 494, 2, 1>>, <<497, 497, 1, 2>>, <<498, 500, 2, 1>>,
      <<502, 502, 1, -97>>, <<503, 503, 1, -56>>, <<504, 542, 2, 1>>, <<544, 544, 1, -130>>,
      <<546, 562, 2, 1>>, <<570, 570, 1, 10795>>, <<571, 571, 1, 1>>, <<573, 573, 1, -163>>,
      <<574, 574, 1, 10792>>, <<577, 577, 1, 1>>, <<579, 579, 1, -195>>, <<580, 580, 1, 69>>,
      <<581, 581, 1, 71>>, <<582, 590, 2, 1>>, <<880, 882, 2, 1>>, <<886, 886, 1, 1>>,
      <<895, 895, 1, 116>>, <<902, 902, 1, 38>>, <<904, 906, 1, 37>>, <<908, 908, 1, 64>>,
      <<910, 911, 1, 63>>, <<913, 929, 1, 32>>, <<932, 939, 1, 32>>, <<975, 975, 1, 8>>,
      <<984, 1006, 2, 1>>, <<1012, 1012, 1, -60>>, <<1015, 1015, 1, 1>>, <<1017, 1017, 1, -7>>,
      <<1018, 1018, 1, 1>>, <<1021, 1023, 1, -130>>, <<1024, 1039, 1, 80>>, <<1040, 1071, 1, 32>>,
      <<1120, 1152, 2, 1>>, <<1162, 1214, 2, 1>>, <<1216, 1216, 1, 15>>, <<1217, 1229, 2, 1>>,
      <<1232, 1326, 2, 1>>, <<1329, 1366, 1, 48>>, <<4256, 4293, 1, 7264>>,
      <<4295, 4295, 1, 7264>>, <<4301, 4301, 1, 7264>>, <<5024, 5103, 1, 38864>>,
      <<5104, 5109, 1, 8>>, <<7312, 7354, 1, -3008>>, <<7357, 7359, 1, -3008>>,
      <<7680, 7828, 2, 1>>, <<7838, 7838, 1, -7615>>, <<7840, 7934, 2, 1>>, <<7944, 7951, 1, -8>>,
      <<7960, 7965, 1, -8>>, <<7976, 7983, 1, -8>>, <<7992, 7999, 1, -8>>, <<8008, 8013, 1, -8>>,
      <<8025, 8031, 2, -8>>, <<8040, 8047, 1, -8>>, <<8072, 8079, 1, -8>>, <<8088, 8095, 1, -8>>,
      <<8104, 8111, 1, -8>>, <<8120, 8121, 1, -8>>, <<8122, 8123, 1, -74>>, <<8124, 8124, 1, -9>>,
      <<8136, 8139, 1, -86>>, <<8140, 8140, 1, -9>>, <<8152, 8153, 1, -8>>,
      <<8154, 8155, 1, -100>>, <<8168, 8169, 1, -8>>, <<8170, 8171, 1, -112>>,
      <<8172, 8172, 1, -7>>, <<8184, 8185, 1, -128>>, <<8186, 8187, 1, -126>>,
      <<8188, 8188, 1, -9>>, <<8486, 8486, 1, -7517>>, <<8490, 8490, 1, -8383>>,
      <<8491, 8491, 1, -8262>>, <<8498, 8498, 1, 28>>, <<8544, 8559, 1, 16>>, <<8579, 8579, 1, 1>>,
      <<9398, 9423, 1, 26>>, <<11264, 11311, 1, 48>>, <<11360, 11360, 1, 1>>,
      <<11362, 11362, 1, -10743>>, <<11363, 11363, 1, -3814>>, <<11364, 11364, 1, -10727>>,
      <<11367, 11371, 2, 1>>, <<11373, 11373, 1, -10780>>, <<11374, 11374, 1, -10749>>,
      <<11375, 11375, 1, -10783>>, <<11376, 11376, 1, -10782>>, <<11378, 11378, 1, 1>>,
      <<11381, 11381, 1, 1>>, <<11390, 11391, 1, -10815>>, <<11392, 11490, 2, 1>>,
      <<11499, 11501, 2, 1>>, <<11506, 11506, 1, 1>>, <<42560, 42604, 2, 1>>,
      <<42624, 42650, 2, 1>>, <<42786, 42798, 2, 1>>, <<42802, 42862, 2, 1>>,
      <<42873, 42875, 2, 1>>, <<42877, 42877, 1, -35332>>, <<42878, 42886, 2, 1>>,
      <<42891, 42891, 1, 1>>, <<42893, 42893, 1, -42280>>, <<42896, 42898, 2, 1>>,
      <<42902, 42920, 2, 1>>, <<42922, 42922, 1, -42308>>, <<42923, 42923, 1, -42319>>,
      <<42924, 42924, 1, -42315>>, <<42925, 42925, 1, -42305>>, <<42926, 42926, 1, -42308>>,
      <<42928, 42928, 1, -42258>>, <<42929, 42929, 1, -42282>>, <<42930, 42930, 1, -42261>>,
      <<42931, 42931, 1, 928>>, <<42932, 42946, 2, 1>>, <<42948, 42948, 1, -48>>,
      <<42949, 42949, 1, -42307>>, <<42950, 42950, 1, -35384>>, <<42951, 42953, 2, 1>>,
      <<42960, 42960, 1, 1>>, <<42966, 42968, 2, 1>>, <<42997, 42997, 1, 1>>,
      <<65313, 65338, 1, 32>>, <<66560, 66599, 1, 40>>, <<66736, 66771, 1, 40>>,
      <<66928, 66964, 2, 39>>, <<66929, 66938, 1, 39>>, <<66940, 66954, 1, 39>>,
      <<66956, 66962, 1, 39>>, <<66964, 66965, 1, 39>>, <<68736, 68786, 1, 64>>,
      <<71840, 71871, 1, 32>>, <<93760, 93791, 1, 32>>, <<125184, 125217, 1, 34>> }
\* the code points lo..hi with the Case_Ignorable property
CASE_IGNORABLE_RANGES ==
    { <<39, 39>>, <<46, 46>>, <<58, 58>>, <<94, 94>>, <<96, 96>>, <<168, 168>>, <<173, 173>>,
      <<175, 175>>, <<180, 180>>, <<183, 184>>, <<688, 879>>, <<884, 885>>, <<890, 890>>,
      <<900, 901>>, <<903, 903>>, <<1155, 1161>>, <<1369, 1369>>, <<1375, 1375>>, <<1425, 1469>>,
      <<1471, 1471>>, <<1473, 1474>>, <<1476, 1477>>, <<1479, 1479>>, <<1524, 1524>>,
      <<1536, 1541>>, <<1552, 1562>>, <<1564, 1564>>, <<1600, 1600>>, <<1611, 1631>>,
      <<1648, 1648>>, <<1750, 1757>>, <<1759, 1768>>, <<1770, 1773>>, <<1807, 1807>>,
      <<1809, 1809>>, <<1840, 1866>>, <<1958, 1968>>, <<2027, 2037>>, <<2042, 2042>>,
      <<2045, 2045>>, <<2070, 2093>>, <<2137, 2139>>, <<2184, 2184>>, <<2192, 2193>>,
      <<2200, 2207>>, <<2249, 2306>>, <<2362, 2362>>, <<2364, 2364>>, <<2369, 2376>>,
      <<2381, 2381>>, <<2385, 2391>>, <<2402, 2403>>, <<2417, 2417>>, <<2433, 2433>>,
      <<2492, 2492>>, <<2497, 2500>>, <<2509, 2509>>, <<2530, 2531>>, <<2558, 2558>>,
      <<2561, 2562>>, <<2620, 2620>>, <<2625, 2626>>, <<2631, 2632>>, <<2635, 2637>>,
      <<2641, 2641>>, <<2672, 2673>>, <<2677, 2677>>, <<2689, 2690>>, <<2748, 2748>>,
      <<2753, 2757>>, <<2759, 2760>>, <<2765, 2765>>, <<2786, 2787>>, <<2810, 2815>>,
      <<2817, 2817>>, <<2876, 2876>>, <<2879, 2879>>, <<2881, 2884>>, <<2893, 2893>>,
      <<2901, 2902>>, <<2914, 2915>>, <<2946, 2946>>, <<3008, 3008>>, <<3021, 3021>>,
      <<3072, 3072>>, <<3076, 3076>>, <<3132, 3132>>, <<3134, 3136>>, <<3142, 3144>>,
      <<3146, 3149>>, <<3157, 3158>>, <<3170, 3171>>, <<3201, 3201>>, <<3260, 3260>>,
      <<3263, 3263>>, <<3270, 3270>>, <<3276, 3277>>, <<3298, 3299>>, <<3328, 3329>>,
      <<3387, 3388>>, <<3393, 3396>>, <<3405, 3405>>, <<3426, 3427>>, <<3457, 3457>>,
      <<3530, 3530>>, <<3538, 3540>>, <<3542, 3542>>, <<3633, 3633>>, <<3636, 3642>>,
      <<3654, 3662>>, <<3761, 3761>>, <<3764, 3772>>, <<3782, 3782>>, <<3784, 3789>>,
      <<3864, 3865>>, <<3893, 3893>>, <<3895, 3895>>, <<3897, 3897>>, <<3953, 3966>>,
      <<3968, 3972>>, <<3974, 3975>>, <<3981, 3991>>, <<3993, 4028>>, <<4038, 4038>>,
      <<4141, 4144>>, <<4146, 4151>>, <<4153, 4154>>, <<4157, 4158>>, <<4184, 4185>>,
      <<4190, 4192>>, <<4209, 4212>>, <<4226, 4226>>, <<4229, 4230>>, <<4237, 4237>>,
      <<4253, 4253>>, <<4348, 4348>>, <<4957, 4959>>, <<5906, 5908>>, <<5938, 5939>>,
      <<5970, 5971>>, <<6002, 6003>>, <<6068, 6069>>, <<6071, 6077>>, <<6086, 6086>>,
      <<6089, 6099>>, <<6103, 6103>>, <<6109, 6109>>, <<6155, 6159>>, <<6211, 6211>>,
      <<6277, 6278>>, <<6313, 6313>>, <<6432, 6434>>, <<6439, 6440>>, <<6450, 6450>>,
      <<6457, 6459>>, <<6679, 6680>>, <<6683, 6683>>, <<6742, 6742>>, <<6744, 6750>>,
      <<6752, 6752>>, <<6754, 6754>>, <<6757, 6764>>, <<6771, 6780>>, <<6783, 6783>>,
      <<6823, 6823>>, <<6832, 6862>>, <<6912, 6915>>, <<6964, 6964>>, <<6966, 6970>>,
      <<6972, 6972>>, <<6978, 6978>>, <<7019, 7027>>, <<7040, 7041>>, <<7074, 7077>>,
      <<7080, 7081>>, <<7083, 7085>>, <<7142, 7142>>, <<7144, 7145>>, <<7149, 7149>>,
      <<7151, 7153>>, <<7212, 7219>>, <<7222, 7223>>, <<7288, 7293>>, <<7376, 7378>>,
      <<7380, 7392>>, <<7394, 7400>>, <<7405, 7405>>, <<7412, 7412>>, <<7416, 7417>>,
      <<7468, 7530>>, <<7544, 7544>>, <<7579, 7679>>, <<8125, 8125>>, <<8127, 8129>>,
      <<8141, 8143>>, <<8157, 8159>>, <<8173, 8175>>, <<8189, 8190>>, <<8203, 8207>>,
      <<8216, 8217>>, <<8228, 8228>>, <<8231, 8231>>, <<8234, 8238>>, <<8288, 8292>>,
      <<8294, 8303>>, <<8305, 8305>>, <<8319, 8319>>, <<8336, 8348>>, <<8400, 8432>>,
      <<11388, 11389>>, <<11503, 11505>>, <<11631, 11631>>, <<11647, 11647>>, <<11744, 11775>>,
      <<11823, 11823>>, <<12293, 12293>>, <<12330, 12333>>, <<12337, 12341>>, <<12347, 12347>>,
      <<12441, 12446>>, <<12540, 12542>>, <<40981, 40981>>, <<42232, 42237>>, <<42508, 42508>>,
      <<42607, 42610>>, <<42612, 42621>>, <<42623, 42623>>, <<42652, 42655>>, <<42736, 42737>>,
      <<42752, 42785>>, <<42864, 42864>>, <<42888, 42890>>, <<42994, 42996>>, <<43000, 43001>>,
      <<43010, 43010>>, <<43014, 43014>>, <<43019, 43019>>, <<43045, 43046>>, <<43052, 43052>>,
      <<43204, 43205>>, <<43232, 43249>>, <<43263, 43263>>, <<43302, 43309>>, <<43335, 43345>>,
      <<43392, 43394>>, <<43443, 43443>>, <<43446, 43449>>, <<43452, 43453>>, <<43471, 43471>>,
      <<43493, 43494>>, <<43561, 43566>>, <<43569, 43570>>, <<43573, 43574>>, <<43587, 43587>>,
      <<43596, 43596>>, <<43632, 43632>>, <<43644, 43644>>, <<43696, 43696>>, <<43698, 43700>>,
      <<43703, 43704>>, <<43710, 43711>>, <<43713, 43713>>, <<43741, 43741>>, <<43756, 43757>>,
      <<43763, 43764>>, <<43766, 43766>>, <<43867, 43871>>, <<43881, 43883>>, <<44005, 44005>>,
      <<44008, 44008>>, <<44013, 44013>>, <<64286, 64286>>, <<64434, 64450>>, <<65024, 65039>>,
      <<65043, 65043>>, <<65056, 65071>>, <<65106, 65106>>, <<65109, 65109>>, <<65279, 65279>>,
      <<65287, 65287>>, <<65294, 65294>>, <<65306, 65306>>, <<65342, 65342>>, <<65344, 65344>>,
      <<65392, 65392>>, <<65438, 65439>>, <<65507, 65507>>, <<65529, 65531>>, <<66045, 66045>>,
      <<66272, 66272>>, <<66422, 66426>>, <<67456, 67461>>, <<67463, 67504>>, <<67506, 67514>>,
      <<68097, 68099>>, <<68101, 68102>>, <<68108, 68111>>, <<68152, 68154>>, <<68159, 68159>>,
      <<68325, 68326>>, <<68900, 68903>>, <<69291, 69292>>, <<69446, 69456>>, <<69506, 69509>>,
      <<69633, 69633>>, <<69688, 69702>>, <<69744, 69744>>, <<69747, 69748>>, <<69759, 69761>>,
      <<69811, 69814>>, <<69817, 69818>>, <<69821, 69821>>, <<69826, 69826>>, <<69837, 69837>>,
      <<69888, 69890>>, <<69927, 69931>>, <<69933, 69940>>, <<70003, 70003>>, <<70016, 70017>>,
      <<70070, 70078>>, <<70089, 70092>>, <<70095, 70095>>, <<70191, 70193>>, <<70196, 70196>>,
      <<70198, 70199>>, <<70206, 70206>>, <<70367, 70367>>, <<70371, 70378>>, <<70400, 70401>>,
      <<70459, 70460>>, <<70464, 70464>>, <<70502, 70508>>, <<70512, 70516>>, <<70712, 70719>>,
      <<70722, 70724>>, <<70726, 70726>>, <<70750, 70750>>, <<70835, 70840>>, <<70842, 70842>>,
      <<70847, 70848>>, <<70850, 70851>>, <<71090, 71093>>, <<71100, 71101>>, <<71103, 71104>>,
      <<71132, 71133>>, <<71219, 71226>>, <<71229, 71229>>, <<71231, 71232>>, <<71339, 71339>>,
      <<71341, 71341>>, <<71344, 71349>>, <<71351, 71351>>, <<71453, 71455>>, <<71458, 71461>>,
      <<71463, 71467>>, <<71727, 71735>>, <<71737, 71738>>, <<71995, 71996>>, <<71998, 71998>>,
      <<72003, 72003>>, <<72148, 72151>>, <<72154, 72155>>, <<72160, 72160>>, <<72193, 72202>>,
      <<72243, 72248>>, <<72251, 72254>>, <<72263, 72263>>, <<72273, 72278>>, <<72281, 72283>>,
      <<72330, 72342>>, <<72344, 72345>>, <<72752, 72758>>, <<72760, 72765>>, <<72767, 72767>>,
      <<72850, 72871>>, <<72874, 72880>>, <<72882, 72883>>, <<72885, 72886>>, <<73009, 73014>>,
      <<73018, 73018>>, <<73020, 73021>>, <<73023, 73029>>, <<73031, 73031>>, <<73104, 73105>>,
      <<73109, 73109>>, <<73111, 73111>>, <<73459, 73460>>, <<78896, 78904>>, <<92912, 92916>>,
      <<92976, 92982>>, <<92992, 92995>>, <<94031, 94031>>, <<94095, 94111>>, <<94176, 94177>>,
      <<94179, 94180>>, <<110576, 110579>>, <<110581, 110587>>, <<110589, 110590>>,
      <<113821, 113822>>, <<113824, 113827>>, <<118528, 118573>>, <<118576, 118598>>,
      <<119143, 119145>>, <<119155, 119170>>, <<119173, 119179>>, <<119210, 119213>>,
      <<119362, 119364>>, <<121344, 121398>>, <<121403, 121452>>, <<121461, 121461>>,
      <<121476, 121476>>, <<121499, 121503>>, <<121505, 121519>>, <<122880, 122886>>,
      <<122888, 122904>>, <<122907, 122913>>, <<122915, 122916>>, <<122918, 122922>>,
      <<123184, 123197>>, <<123566, 123566>>, <<123628, 123631>>, <<125136, 125142>>,
      <<125252, 125259>>, <<127995, 127999>>, <<917505, 917505>>, <<917536, 917631>>,
      <<917760, 917999>> }
\* the code points lo..hi with the Cased property
CASED_RANGES ==
    { <<65, 90>>, <<97, 122>>, <<170, 170>>, <<181, 181>>, <<186, 186>>, <<192, 214>>,
      <<216, 246>>, <<248, 442>>, <<444, 447>>, <<452, 659>>, <<661, 696>>, <<704, 705>>,
      <<736, 740>>, <<837, 837>>, <<880, 883>>, <<886, 887>>, <<890, 893>>, <<895, 895>>,
      <<902, 902>>, <<904, 906>>, <<908, 908>>, <<910, 929>>, <<931, 1013>>, <<1015, 1153>>,
      <<1162, 1327>>, <<1329, 1366>>, <<1376, 1416>>, <<4256, 4293>>, <<4295, 4295>>,
      <<4301, 4301>>, <<4304, 4346>>, <<4349, 4351>>, <<5024, 5109>>, <<5112, 5117>>,
      <<7296, 7304>>, <<7312, 7354>>, <<7357, 7359>>, <<7424, 7615>>, <<7680, 7957>>,
      <<7960, 7965>>, <<7968, 8005>>, <<8008, 8013>>, <<8016, 8023>>, <<8025, 8025>>,
      <<8027, 8027>>, <<8029, 8029>>, <<8031, 8061>>, <<8064, 8116>>, <<8118, 8124>>,
      <<8126, 8126>>, <<8130, 8132>>, <<8134, 8140>>, <<8144, 8147>>, <<8150, 8155>>,
      <<8160, 8172>>, <<8178, 8180>>, <<8182, 8188>>, <<8305, 8305>>, <<8319, 8319>>,
      <<8336, 8348>>, <<8450, 8450>>, <<8455, 8455>>, <<8458, 8467>>, <<8469, 8469>>,
      <<8473, 8477>>, <<8484, 8484>>, <<8486, 8486>>, <<8488, 8488>>, <<8490, 8493>>,
      <<8495, 8500>>, <<8505, 8505>>, <<8508, 8511>>, <<8517, 8521>>, <<8526, 8526>>,
      <<8544, 8575>>, <<8579, 8580>>, <<9398, 9449>>, <<11264, 11492>>, <<11499, 11502>>,
      <<11506, 11507>>, <<11520, 11557>>, <<11559, 11559>>, <<11565, 11565>>, <<42560, 42605>>,
      <<42624, 42653>>, <<42786, 42887>>, <<42891, 42894>>, <<42896, 42954>>, <<42960, 42961>>,
      <<42963, 42963>>, <<42965, 42969>>, <<42997, 42998>>, <<43000, 43002>>, <<43824, 43866>>,
      <<43868, 43880>>, <<43888, 43967>>, <<64256, 64262>>, <<64275, 64279>>, <<65313, 65338>>,
      <<65345, 65370>>, <<66560, 66639>>, <<66736, 66771>>, <<66776, 66811>>, <<66928, 66938>>,
      <<66940, 66954>>, <<66956, 66962>>, <<66964, 66965>>, <<66967, 66977>>, <<66979, 66993>>,
      <<66995, 67001>>, <<67003, 67004>>, <<67456, 67456>>, <<67459, 67461>>, <<67463, 67504>>,
      <<67506, 67514>>, <<68736, 68786>>, <<68800, 68850>>, <<71840, 71903>>, <<93760, 93823>>,
      <<119808, 119892>>, <<119894, 119964>>, <<119966, 119967>>, <<119970, 119970>>,
      <<119973, 119974>>, <<119977, 119980>>, <<119982, 119993>>, <<119995, 119995>>,
      <<119997, 120003>>, <<120005, 120069>>, <<120071, 120074>>, <<120077, 120084>>,
      <<120086, 120092>>, <<120094, 120121>>, <<120123, 120126>>, <<120128, 120132>>,
      <<120134, 120134>>, <<120138, 120144>>, <<120146, 120485>>, <<120488, 120512>>,
      <<120514, 120538>>, <<120540, 120570>>, <<120572, 120596>>, <<120598, 120628>>,
      <<120630, 120654>>, <<120656, 120686>>, <<120688, 120712>>, <<120714, 120744>>,
      <<120746, 120770>>, <<120772, 120779>>, <<122624, 122633>>, <<122635, 122654>>,
      <<125184, 125251>>, <<127280, 127305>>, <<127312, 127337>>, <<127344, 127369>> }

InRanges(c, ranges) == \E r \in ranges : r[1] <= c /\ c <= r[2]

CaseIgnorable(c) == InRanges(c, CASE_IGNORABLE_RANGES)
Cased(c) == InRanges(c, CASED_RANGES)

\* str.lower() of the capital sigma at s[i]: the final form U+03C2 when a cased
\* character comes before it and none after it, case-ignorable characters
\* skipped on both sides; else U+03C3
LowerSigma(s, i) ==
    LET before == {j \in 1..(i - 1) : ~CaseIgnorable(s[j])}
        after == {j \in (i + 1)..Len(s) : ~CaseIgnorable(s[j])}
        last == CHOOSE j \in before : \A k \in before : k <= j
        first == CHOOSE j \in after : \A k \in after : j <= k
    IN  IF /\ before # {}
           /\ Cased(s[last])
           /\ (after = {} \/ ~Cased(s[first]))
        THEN 962 ELSE 963

\* str.lower() of the one character s[i]: one character, but two for U+0130
LowerChar(s, i) ==
    LET c == s[i]
    IN  IF c < 128 THEN (IF c \in 65..90 THEN <<c + 32>> ELSE <<c>>)
        ELSE IF c = 304 THEN <<105, 775>>
        ELSE IF c = 931 THEN <<LowerSigma(s, i)>>
        ELSE IF \E r \in LOWER_RUNS : r[1] <= c /\ c <= r[2] /\ (c - r[1]) % r[3] = 0
             THEN <<c + (CHOOSE r \in LOWER_RUNS :
                             r[1] <= c /\ c <= r[2] /\ (c - r[1]) % r[3] = 0)[4]>>
             ELSE <<c>>

\* str.lower()
Lower(s) ==
    LET RECURSIVE From(_)
        From(i) == IF i > Len(s) THEN <<>> ELSE LowerChar(s, i) \o From(i + 1)
    IN  From(1)

\* `p in s` for two strings
Contains(s, p) == \E i \in 0..(Len(s) - Len(p)) : SubSeq(s, i + 1, i + Len(p)) = p

\* str(n) of an int: a minus sign for a negative one, then the decimal digits
RECURSIVE IntToStr(_)
IntToStr(n) ==
    IF n < 0 THEN <<45>> \o IntToStr(0 - n)
    ELSE IF n < 10 THEN <<48 + n>>
    ELSE IntToStr(n \div 10) \o <<48 + (n % 10)>>

\* one hexadecimal digit, lower case
HexDigit(d) == IF d < 10 THEN 48 + d ELSE 87 + d

\* the last `width` hexadecimal digits of c
RECURSIVE Hex(_, _)
Hex(c, width) ==
    IF width = 0 THEN <<>> ELSE Hex(c \div 16, width - 1) \o <<HexDigit(c % 16)>>

\* not str.isprintable(): repr() writes the character as an escape
Unprintable(c) == IF c \in 32..126 THEN FALSE ELSE InRanges(c, UNPRINTABLE_RANGES)

\* repr() of one character inside the quotes q: \xhh below U+0100, \uhhhh
\* below U+10000, \Uhhhhhhhh above
ReprChar(c, q) ==
    CASE c = 92 -> <<92, 92>>
      [] c = q -> <<92, q>>
      [] c = 10 -> <<92, 110>>
      [] c = 13 -> <<92, 114>>
      [] c = 9 -> <<92, 116>>
      [] Unprintable(c) /\ c < 256 -> <<92, 120>> \o Hex(c, 2)
      [] Unprintable(c) /\ c >= 256 /\ c < 65536 -> <<92, 117>> \o Hex(c, 4)
      [] Unprintable(c) /\ c >= 65536 -> <<92, 85>> \o Hex(c, 8)
      [] OTHER -> <<c>>

\* repr(s) of a str: in double quotes when s holds ' and no ", else in single
\* quotes, with backslash, the quote, newline, tab and control characters escaped
ReprStr(s) ==
    LET has(c) == \E i \in 1..Len(s) : s[i] = c
        q == IF has(39) /\ ~has(34) THEN 34 ELSE 39
        RECURSIVE Body(_)
        Body(i) == IF i > Len(s) THEN <<>> ELSE ReprChar(s[i], q) \o Body(i + 1)
    IN  <<q>> \o Body(1) \o <<q>>

\* "".join(parts)
RECURSIVE Join(_)
Join(parts) == IF parts = <<>> THEN <<>> ELSE Head(parts) \o Join(Tail(parts))

-----------------------------------------------------------------------------
(* Python values: t is the type, s a str's text (a dict's one value, an    *)
(* object's qualified class name), n an int's value (or the number of tool *)
(* calls of a message), items a list's elements, addr an object's id(),    *)
(* written as its hexadecimal digits.                                      *)

PyVal(t, s, n, items) == [t |-> t, s |-> s, n |-> n, items |-> items, addr |-> <<>>]
\* an instance of a class that defines neither __str__ nor __repr__, at address addr
PyObject(t, qualname, n, addr) ==
    [t |-> t, s |-> qualname, n |-> n, items |-> <<>>, addr |-> addr]
\* a key the mapping does not hold
Absent == PyVal("absent", <<>>, 0, <<>>)
PyNone == PyVal("none", <<>>, 0, <<>>)
PyStr(s) == PyVal("str", s, 0, <<>>)
PyInt(n) == PyVal("int", <<>>, n, <<>>)
PyList(items) == PyVal("list", <<>>, 0, items)
\* the dict {'status': s}
PyDict(s) == PyVal("dict", s, 0, <<>>)
\* a message object whose tool_calls attribute is a list of n calls
AIMessage(n, addr) == PyObject("AIMessage", QUAL_AI, n, addr)
\* a message object whose tool_calls attribute is None
NoneCallsMessage(addr) == PyObject("NoneCallsMessage", QUAL_NONECALLS, 0, addr)
\* a message object without a tool_calls attribute
HumanMessage(addr) == PyObject("HumanMessage", QUAL_HUMAN, 0, addr)

\* repr(v): a str quoted and escaped, a dict and a list by the repr of what
\* they hold, an object by object.__repr__: its qualified class name and its
\* address, which differs from object to object and from run to run
RECURSIVE Repr(_)
Repr(v) ==
    CASE v.t = "str" -> ReprStr(v.s)
      [] v.t = "int" -> IntToStr(v.n)
      [] v.t = "none" -> STR_NONE
      [] v.t = "dict" -> <<123>> \o ReprStr(STR_STATUS) \o <<58, 32>> \o ReprStr(v.s) \o <<125>>
      [] v.t = "list" ->
            LET RECURSIVE Items(_)
                Items(i) == IF i > Len(v.items) THEN <<>>
                            ELSE (IF i > 1 THEN <<44, 32>> ELSE <<>>)
                                 \o Repr(v.items[i]) \o Items(i + 1)
            IN  <<91>> \o Items(1) \o <<93>>
      [] OTHER ->
            STR_OBJ_OPEN \o v.s \o STR_OBJ_AT \o [i \in 1..Len(v.addr) |-> HexDigit(v.addr[i])]
            \o STR_OBJ_CLOSE

\* str(v): a str is its own text, every other value its repr
Str(v) == IF v.t = "str" THEN v.s ELSE Repr(v)

\* bool(v): an empty str or list, 0 and None are false; the one-key dict and
\* an object without __bool__ or __len__ are true
Truthy(v) ==
    CASE v.t = "str" -> v.s # <<>>
      [] v.t = "int" -> v.n # 0
      [] v.t = "list" -> v.items # <<>>
      [] v.t = "none" -> FALSE
      [] OTHER -> TRUE

\* whether iter(v) works: None, an int and a plain object raise TypeError
Iterable(v) == v.t \in {"list", "str", "dict"}

\* the elements `for x in v` visits: a list's items, a str's characters, a
\* dict's keys
Elements(v) ==
    CASE v.t = "list" -> v.items
      [] v.t = "dict" -> <<PyStr(STR_STATUS)>>
      [] OTHER -> [i \in 1..Len(v.s) |-> PyStr(<<v.s[i]>>)]

\* dict.get(key, default) on a mapping in which an absent key holds Absent
Get(value, default) == IF value.t = "absent" THEN default ELSE value

\* hasattr(m, 'tool_calls')
HasToolCalls(m) == m.t \in {"AIMessage", "NoneCallsMessage"}

\* m.tool_calls, for a message that has the attribute
ToolCalls(m) == IF m.t = "AIMessage" THEN PyList([i \in 1..m.n |-> PyNone]) ELSE PyNone

-----------------------------------------------------------------------------
(* The model factories (model.py, model_ollama.py).  ext is what the       *)
(* environment does to the call: "ok", "import_missing" (the client        *)
(* library is not installed), "ctor_error" (the client's constructor       *)
(* rejects its arguments, e.g. a missing API key), "unreachable" (the      *)
(* Ollama server does not answer).                                         *)

ExtOutcomes == {"ok", "import_missing", "ctor_error", "unreachable"}

\* the result of a call: raised is "none" or the exception's type
Result(raised) == [raised |-> raised]

\* what the client library's constructor raises on bad arguments
CtorError == "ValidationError"

\* _verify_ollama_connection: a RequestException becomes a ConnectionError
verify_ollama_connection(ext) ==
    IF ext = "unreachable" THEN Result("ConnectionError") ELSE Result("none")

\* create_ollama_model: ImportError before the try; anything raised inside
\* the try is re-raised as ConnectionError
create_ollama_model(ext) ==
    IF ext = "import_missing" THEN Result("ImportError")
    ELSE LET inner == IF ext = "ctor_error" THEN Result(CtorError)
                      ELSE verify_ollama_connection(ext)
         IN  IF inner.raised # "none" THEN Result("ConnectionError") ELSE Result("none")

\* _create_api_model: no handler, whatever ChatDeepSeek raises propagates;
\* no connection is made at construction
create_api_model(ext) ==
    CASE ext = "import_missing" -> Result("ImportError")
      [] ext = "ctor_error" -> Result(CtorError)
      [] OTHER -> Result("none")

\* create_model
create_model(cfg, ext) ==
    IF cfg.llm_backend = "ollama" THEN create_ollama_model(ext) ELSE create_api_model(ext)

\* create_advisor_model
create_advisor_model(cfg, ext) ==
    IF cfg.llm_backend = "ollama" THEN create_ollama_model(ext)
    ELSE CASE ext = "import_missing" -> Result("ImportError")
           [] ext = "ctor_error" -> Result(CtorError)
           [] OTHER -> Result("none")

-----------------------------------------------------------------------------
(* RetryStrategy.                                                          *)

\* __init__ with a handler that hides a failing advisor factory
RetryStrategyInitSwallow(cfg, ext_main, ext_advisor, fresh) ==
    LET m == create_model(cfg, ext_main)
    IN  IF m.raised # "none"
        THEN [raised |-> m.raised, provider |-> m.raised, main_llm |-> 0,
              advisor_llm |-> 0, created |-> <<>>]
        ELSE LET a == create_advisor_model(cfg, ext_advisor)
             IN  IF a.raised # "none"
                 THEN [raised |-> "none", provider |-> a.raised, main_llm |-> fresh,
                       advisor_llm |-> fresh, created |-> <<fresh>>]
                 ELSE [raised |-> "none", provider |-> "none", main_llm |-> fresh,
                       advisor_llm |-> fresh + 1, created |-> <<fresh, fresh + 1>>]

\* RetryStrategy.__init__: the two factory calls in order, no handler.  fresh
\* is the id of the next handle object; provider is what the factory raised,
\* raised what the constructor raised
RetryStrategyInit(cfg, ext_main, ext_advisor, fresh) ==
    LET m == create_model(cfg, ext_main)
    IN  IF m.raised # "none"
        THEN [raised |-> m.raised, provider |-> m.raised, main_llm |-> 0,
              advisor_llm |-> 0, created |-> <<>>]
        ELSE LET a == create_advisor_model(cfg, ext_advisor)
             IN  IF a.raised # "none"
                 THEN [raised |-> a.raised, provider |-> a.raised, main_llm |-> fresh,
                       advisor_llm |-> 0, created |-> <<fresh>>]
                 ELSE [raised |-> "none", provider |-> "none", main_llm |-> fresh,
                       advisor_llm |-> fresh + 1, created |-> <<fresh, fresh + 1>>]

\* get_llm_pair that always puts the main handle first
GetLlmPairNoSwap(cfg, main, advisor, retry_count) ==
    [main_llm |-> main, advisor_llm |-> advisor, primary |-> main, advisor |-> advisor,
     description |-> <<>>]

\* get_llm_pair that swaps the two attributes in place on odd indices
GetLlmPairSwapInPlace(cfg, main, advisor, retry_count) ==
    IF retry_count % 2 = 0
    THEN [main_llm |-> main, advisor_llm |-> advisor, primary |-> main,
          advisor |-> advisor, description |-> <<>>]
    ELSE [main_llm |-> advisor, advisor_llm |-> main, primary |-> advisor,
          advisor |-> main, description |-> <<>>]

\* RetryStrategy.get_llm_pair: the object's two attributes after the call
\* (main_llm, advisor_llm) and the returned triple
get_llm_pair(cfg, main, advisor, retry_count) ==
    LET main_name == IF cfg.llm_backend = "ollama" THEN cfg.ollama_main_model
                     ELSE STR_DEEPSEEK
        advisor_name == IF cfg.llm_backend = "ollama" THEN cfg.ollama_advisor_model
                        ELSE STR_MINIMAX
        is_even == retry_count % 2 = 0
        retry_tag == STR_RETRY_OPEN \o IntToStr(retry_count) \o STR_RETRY_CLOSE
    IN  IF is_even
        THEN [main_llm |-> main, advisor_llm |-> advisor,
              primary |-> main, advisor |-> advisor,
              description |-> main_name \o STR_PRIMARY \o advisor_name \o STR_ADVISOR
                              \o (IF retry_count > 0 THEN retry_tag ELSE <<>>)]
        ELSE [main_llm |-> main, advisor_llm |-> advisor,
              primary |-> advisor, advisor |-> main,
              description |-> advisor_name \o STR_PRIMARY \o main_name \o STR_ADVISOR
                              \o retry_tag]

-----------------------------------------------------------------------------
(* RetryStrategy.extract_attempt_summary.                                  *)

\* line 163's keyword list
Keywords == {KW_SHIBAI, KW_CUOWU, KW_ERROR, KW_FAILED}

\* line 163 without .lower(): the keywords are matched case-sensitively
IsFailureCaseSensitive(action) == \E keyword \in Keywords : Contains(Str(action), keyword)

\* line 163: any(keyword in str(action).lower() for keyword in [...])
IsFailure(action) == \E keyword \in Keywords : Contains(Lower(Str(action)), keyword)

\* lines 161-164: the loop that collects str(action) of the failing entries
RECURSIVE FailedMethods(_)
FailedMethods(actions) ==
    IF actions = <<>> THEN <<>>
    ELSE (IF IsFailure(Head(actions)) THEN <<Str(Head(actions))>> ELSE <<>>)
         \o FailedMethods(Tail(actions))

\* line 170 without the truthiness test: counts every message that has the attribute
CountToolMessagesAnyMarker(messages) ==
    Len(SelectSeq(messages, HasToolCalls))

\* line 170: len([m for m in messages if hasattr(m, 'tool_calls') and m.tool_calls])
CountToolMessages(messages) ==
    LET Counted(m) == HasToolCalls(m) /\ Truthy(ToolCalls(m))
    IN  Len(SelectSeq(messages, Counted))

\* lines 172-178: the keys of the returned dict
SummaryKeys == {"strategy", "attempts", "failed_methods", "key_findings", "timestamp"}

\* a call that raised exc returns no dict
Raised(exc) == [raised |-> exc, keys |-> {}, strategy |-> <<>>, attempts |-> 0,
                failed_methods |-> <<>>, key_findings |-> <<>>, timestamp |-> Absent]

\* extract_attempt_summary that keeps only the first 10 failures and 5 findings
ExtractTruncating(fs, strategy) ==
    LET action_history == Get(fs.action_history, PyList(<<>>))
        key_findings == Get(fs.potential_vulnerabilities, PyList(<<>>))
        fm == FailedMethods(Elements(action_history))
        kf == IF Truthy(key_findings)
              THEN [i \in 1..Len(Elements(key_findings)) |-> Str(Elements(key_findings)[i])]
              ELSE <<>>
    IN  [raised |-> "none", keys |-> SummaryKeys, strategy |-> strategy,
         attempts |-> CountToolMessages(Elements(Get(fs.messages, PyList(<<>>)))),
         failed_methods |-> SubSeq(fm, 1, IF Len(fm) < 10 THEN Len(fm) ELSE 10),
         key_findings |-> SubSeq(kf, 1, IF Len(kf) < 5 THEN Len(kf) ELSE 5),
         timestamp |-> Get(fs.start_time, PyNone)]

\* extract_attempt_summary(final_state, strategy): the returned dict, or the
\* TypeError that `for action in action_history`, `for m in messages` or
\* `for v in key_findings` raises on a value that is not iterable
extract_attempt_summary(fs, strategy) ==
    LET action_history == Get(fs.action_history, PyList(<<>>))
        messages == Get(fs.messages, PyList(<<>>))
        key_findings == Get(fs.potential_vulnerabilities, PyList(<<>>))
    IN  IF ~Iterable(action_history) THEN Raised("TypeError")
        ELSE IF ~Iterable(messages) THEN Raised("TypeError")
        ELSE IF Truthy(key_findings) /\ ~Iterable(key_findings) THEN Raised("TypeError")
        ELSE [raised |-> "none",
              keys |-> SummaryKeys,
              strategy |-> strategy,
              attempts |-> CountToolMessages(Elements(messages)),
              failed_methods |-> FailedMethods(Elements(action_history)),
              key_findings |->
                  IF Truthy(key_findings)
                  THEN [i \in 1..Len(Elements(key_findings)) |->
                            Str(Elements(key_findings)[i])]
                  ELSE <<>>,
              timestamp |-> Get(fs.start_time, PyNone)]

-----------------------------------------------------------------------------
(* RetryStrategy.format_attempt_history.                                   *)

\* line 129: failed_methods[:10]
MaxFailedShown == 10
\* line 134: key_findings[:5]
MaxFindingsShown == 5

\* xs[:n]
Take(xs, n) == SubSeq(xs, 1, IF Len(xs) < n THEN Len(xs) ELSE n)

\* attempt.get(key, default) on a summary dict
DictGet(attempt, key, value, default) == IF key \in attempt.keys THEN value ELSE default

NL == <<10>>

\* one section that lists every failed method and every finding
SectionPartsNoLimit(i, attempt) ==
    <<STR_SECTION \o IntToStr(i) \o STR_COLON \o attempt.strategy \o NL,
      STR_COUNT \o IntToStr(attempt.attempts) \o NL>>
    \o (IF attempt.failed_methods # <<>>
        THEN <<STR_FAILED_HEAD>>
             \o [k \in 1..Len(attempt.failed_methods) |->
                    STR_FAILED_BULLET \o attempt.failed_methods[k] \o NL]
        ELSE <<>>)
    \o (IF attempt.key_findings # <<>>
        THEN <<STR_FINDINGS_HEAD>>
             \o [k \in 1..Len(attempt.key_findings) |->
                    STR_FINDING_BULLET \o attempt.key_findings[k] \o NL]
        ELSE <<>>)
    \o <<NL>>

\* one section numbered from 0, as enumerate(attempt_history) would
SectionPartsZeroBased(i, attempt) ==
    <<STR_SECTION \o IntToStr(i - 1) \o STR_COLON \o attempt.strategy \o NL,
      STR_COUNT \o IntToStr(attempt.attempts) \o NL, NL>>

\* lines 119-137: the parts appended for the i-th summary
SectionParts(i, attempt) ==
    LET strategy == DictGet(attempt, "strategy", attempt.strategy, STR_UNKNOWN_STRATEGY)
        attempts_count == DictGet(attempt, "attempts", attempt.attempts, 0)
        failed_methods == DictGet(attempt, "failed_methods", attempt.failed_methods, <<>>)
        key_findings == DictGet(attempt, "key_findings", attempt.key_findings, <<>>)
        shown_methods == Take(failed_methods, MaxFailedShown)
        shown_findings == Take(key_findings, MaxFindingsShown)
    IN  <<STR_SECTION \o IntToStr(i) \o STR_COLON \o strategy \o NL,
          STR_COUNT \o IntToStr(attempts_count) \o NL>>
        \o (IF failed_methods # <<>>
            THEN <<STR_FAILED_HEAD>>
                 \o [k \in 1..Len(shown_methods) |->
                        STR_FAILED_BULLET \o shown_methods[k] \o NL]
            ELSE <<>>)
        \o (IF key_findings # <<>>
            THEN <<STR_FINDINGS_HEAD>>
                 \o [k \in 1..Len(shown_findings) |->
                        STR_FINDING_BULLET \o shown_findings[k] \o NL]
            ELSE <<>>)
        \o <<NL>>

\* lines 118-137: the loop over enumerate(attempt_history, 1)
RECURSIVE AllSections(_, _)
AllSections(history, i) ==
    IF i > Len(history) THEN <<>>
    ELSE SectionParts(i, history[i]) \o AllSections(history, i + 1)

\* format_attempt_history that repeats the closing note after every section
FormatNotePerSection(history) ==
    IF history = <<>> THEN <<>>
    ELSE Join(<<STR_HEADING>>
              \o Join([i \in 1..Len(history) |->
                          SectionParts(i, history[i]) \o <<STR_NOTE>>]))

\* format_attempt_history(attempt_history)
format_attempt_history(history) ==
    IF history = <<>> THEN <<>>
    ELSE Join(<<STR_HEADING>> \o AllSections(history, 1) \o <<STR_NOTE>>)

-----------------------------------------------------------------------------
(* The orchestrator's interface: construction, then get_llm_pair calls     *)
(* with any indices.                                                       *)

\* AgentConfig values: the API backend, and the Ollama backend with the
\* default model names or with one model in both roles
Configs ==
    { [llm_backend |-> "api", ollama_main_model |-> STR_OLLAMA_MAIN,
       ollama_advisor_model |-> STR_OLLAMA_ADVISOR],
      [llm_backend |-> "ollama", ollama_main_model |-> STR_OLLAMA_MAIN,
       ollama_advisor_model |-> STR_OLLAMA_ADVISOR],
      [llm_backend |-> "ollama", ollama_main_model |-> STR_OLLAMA_ADVISOR,
       ollama_advisor_model |-> STR_OLLAMA_ADVISOR] }

\* no call with this index has returned yet
NoReturn == [primary |-> 0, advisor |-> 0, description |-> <<>>]

\* no raw result, no summary
NoState == [action_history |-> Absent, messages |-> Absent,
            potential_vulnerabilities |-> Absent, start_time |-> Absent]
NoSummary == [raised |-> "unset", keys |-> {}, strategy |-> <<>>, attempts |-> 0,
              failed_methods |-> <<>>, key_findings |-> <<>>, timestamp |-> Absent]

\* the variables of a run before RetryStrategy(config) is called
Fresh(cfg) ==
    /\ config = cfg
    /\ main_llm = 0
    /\ advisor_llm = 0
    /\ created = <<>>
    /\ provider_error = "none"
    /\ error = "none"
    /\ returned = [i \in 0..MaxIndex |-> NoReturn]
    /\ ncalls = 0
    /\ stable = TRUE

\* no session, no raw result, no summary yet
Idle ==
    /\ retry_index = 0
    /\ attempt_history = <<>>
    /\ history_text = <<>>
    /\ final_state = NoState
    /\ summary = NoSummary

Init == \E cfg \in Configs : pc = "new" /\ Fresh(cfg) /\ Idle

\* RetryStrategy(config): pc becomes "ready" when an instance is produced,
\* "failed" when the constructor raised
Construct(ext_main, ext_advisor) ==
    /\ pc = "new"
    /\ LET r == RetryStrategyInit(config, ext_main, ext_advisor, 1)
       IN  /\ pc' = IF r.raised = "none" THEN "ready" ELSE "failed"
           /\ main_llm' = r.main_llm
           /\ advisor_llm' = r.advisor_llm
           /\ created' = r.created
           /\ provider_error' = r.provider
           /\ error' = r.raised
    /\ UNCHANGED <<config, returned, ncalls, stable, retry_index, attempt_history,
                   history_text, final_state, summary>>

\* strategy.get_llm_pair(i) on the constructed instance
GetLlmPair(i) ==
    /\ pc = "ready"
    /\ ncalls < MaxCalls
    /\ LET r == get_llm_pair(config, main_llm, advisor_llm, i)
       IN  /\ main_llm' = r.main_llm
           /\ advisor_llm' = r.advisor_llm
           /\ returned' = [returned EXCEPT ![i] =
                  [primary |-> r.primary, advisor |-> r.advisor,
                   description |-> r.description]]
           /\ stable' = (stable /\ (returned[i] = NoReturn
                                    \/ (returned[i].primary = r.primary
                                        /\ returned[i].advisor = r.advisor)))
    /\ ncalls' = ncalls + 1
    /\ UNCHANGED <<pc, config, created, provider_error, error, retry_index,
                   attempt_history, history_text, final_state, summary>>

Next ==
    \/ \E em \in ExtOutcomes, ea \in ExtOutcomes : Construct(em, ea)
    \/ \E i \in 0..MaxIndex : GetLlmPair(i)

Spec == Init /\ [][Next]_vars

-----------------------------------------------------------------------------
(* extract_attempt_summary applied to raw results.                         *)

\* longest action log
MaxActions == 11
\* longest action log drawn entry by entry
MaxShortLog == 2
\* longest message sequence
MaxMessages == 3
\* most discovered facts
MaxFacts == 6

\* addresses of objects: 0x7f1b52440110, 0x7f1b524401d0, 0x7f1b52437c90
ADDR_A == <<7, 15, 1, 11, 5, 2, 4, 4, 0, 1, 1, 0>>
ADDR_B == <<7, 15, 1, 11, 5, 2, 4, 4, 0, 1, 13, 0>>
ADDR_C == <<7, 15, 1, 11, 5, 2, 4, 3, 7, 12, 9, 0>>

\* action-log entries: strings with and without a keyword in either case
\* and language, and entries that are no strings
SampleActions ==
    { PyStr(TXT_SUCCEEDED), PyStr(TXT_FAILED_TIMEOUT), PyStr(TXT_CUOWU_INPUT),
      PyStr(TXT_ERROR_UPPER), PyStr(TXT_FAILED_MIXED), PyStr(TXT_SHIBAI),
      PyStr(TXT_NEAR_MISS), PyInt(404), PyInt(0 - 5), PyNone, PyDict(KW_ERROR),
      PyDict(TXT_ITS), PyList(<<PyStr(KW_FAILED), PyStr(TXT_ESCAPES)>>), HumanMessage(ADDR_A),
      PyDict(TXT_RLM_AILED), PyStr(TXT_DOTTED_I) }

\* the entries the long logs alternate
LongActions == {PyStr(TXT_SUCCEEDED), PyStr(TXT_FAILED_TIMEOUT), PyStr(TXT_ERROR_UPPER)}

\* the action log of the documented scenario
ScenarioLog == <<PyStr(TXT_SUCCEEDED), PyStr(TXT_FAILED_TIMEOUT), PyStr(TXT_CUOWU_INPUT)>>

ActionLogs ==
    UNION {[1..n -> SampleActions] : n \in 0..MaxShortLog}
    \cup {ScenarioLog}
    \cup {[k \in 1..n |-> IF k % 2 = 1 THEN a ELSE b] :
              n \in (MaxShortLog + 1)..MaxActions, a \in LongActions, b \in LongActions}

\* values of final_state["action_history"], well-shaped and not
ActionFields ==
    {PyList(log) : log \in ActionLogs}
    \cup {Absent, PyNone, PyInt(3), PyStr(TXT_FAILED_TIMEOUT), PyDict(KW_ERROR), HumanMessage(ADDR_A)}

SampleMessages ==
    {AIMessage(0, ADDR_A), AIMessage(2, ADDR_B), HumanMessage(ADDR_C), NoneCallsMessage(ADDR_A)}

\* values of final_state["messages"]
MessageFields ==
    {PyList(ms) : ms \in UNION {[1..n -> SampleMessages] : n \in 0..MaxMessages}}
    \cup {Absent, PyNone, PyInt(3), PyStr(TXT_OK), PyDict(KW_ERROR), HumanMessage(ADDR_A)}

\* values of final_state["potential_vulnerabilities"]
FactFields ==
    {PyList([k \in 1..n |-> IF k % 2 = 1 THEN PyStr(TXT_SQLI) ELSE PyInt(k)]) :
         n \in 0..MaxFacts}
    \cup {Absent, PyNone, PyInt(0), PyInt(7), PyStr(<<>>), PyStr(TXT_SQLI), PyDict(KW_ERROR),
          HumanMessage(ADDR_A),
          PyList(<<PyDict(TXT_ESCAPES), PyList(<<PyNone, PyInt(0 - 5)>>), PyStr(TXT_ITS)>>),
          PyList(<<HumanMessage(ADDR_A), HumanMessage(ADDR_B), PyDict(TXT_WIDE_SPACE)>>)}

\* values of final_state["start_time"]
TimeFields == {Absent, PyNone, PyStr(TXT_T0), PyInt(1700000000)}

TwoCalls == PyList(<<AIMessage(1, ADDR_A), HumanMessage(ADDR_B), AIMessage(2, ADDR_C)>>)
ManyFacts == PyList([k \in 1..MaxFacts |-> PyStr(TXT_SQLI)])

\* raw results: each field in turn takes every value, beside a few values
\* of the other fields
FinalStates ==
    {[action_history |-> a, messages |-> m, potential_vulnerabilities |-> v,
      start_time |-> Absent] :
         a \in ActionFields, m \in {Absent, TwoCalls}, v \in {Absent, ManyFacts}}
    \cup
    {[action_history |-> a, messages |-> m, potential_vulnerabilities |-> Absent,
      start_time |-> PyStr(TXT_T0)] :
         a \in {Absent, PyNone, PyList(ScenarioLog)}, m \in MessageFields}
    \cup
    {[action_history |-> a, messages |-> Absent, potential_vulnerabilities |-> v,
      start_time |-> t] :
         a \in {Absent, PyList(ScenarioLog)}, v \in FactFields, t \in TimeFields}

ApiConfig == CHOOSE cfg \in Configs : cfg.llm_backend = "api"

\* the strategy label the caller passes: the description of the attempt's pair
StrategyOf(cfg, i) == get_llm_pair(cfg, 1, 2, i).description

InitSummarize ==
    /\ pc = "raw"
    /\ Fresh(ApiConfig)
    /\ retry_index = 1
    /\ attempt_history = <<>>
    /\ history_text = <<>>
    /\ final_state \in FinalStates
    /\ summary = NoSummary

\* RetryStrategy.extract_attempt_summary(final_state, strategy)
Summarize ==
    /\ pc = "raw"
    /\ summary' = extract_attempt_summary(final_state, StrategyOf(config, retry_index))
    /\ pc' = "summarized"
    /\ UNCHANGED <<config, main_llm, advisor_llm, created, provider_error, error, returned,
                   ncalls, stable, retry_index, attempt_history, history_text, final_state>>

NextSummarize == Summarize

SpecSummarize == InitSummarize /\ [][NextSummarize]_vars

-----------------------------------------------------------------------------
(* format_attempt_history applied to histories.                            *)

\* longest history
MaxHistory == 2
\* most failed methods of a summary
MaxMethods == 11
\* most key findings of a summary
MaxFindings == 6

\* "e" + str(k), "f" + str(k): distinct texts, so that order shows
MethodText(k) == <<101>> \o IntToStr(k)
FindingText(k) == <<102>> \o IntToStr(k)

\* the summary dict with n failed methods and m key findings
SummaryOf(n, m, keys) ==
    [raised |-> "none", keys |-> keys, strategy |-> StrategyOf(ApiConfig, n % 2),
     attempts |-> n + m,
     failed_methods |-> [k \in 1..n |-> MethodText(k)],
     key_findings |-> [k \in 1..m |-> FindingText(k)],
     timestamp |-> PyNone]

SampleSummaries ==
    {SummaryOf(n, 0, SummaryKeys) : n \in 0..MaxMethods}
    \cup {SummaryOf(0, m, SummaryKeys) : m \in 1..MaxFindings}
    \cup {SummaryOf(MaxMethods, MaxFindings, SummaryKeys), SummaryOf(2, 1, SummaryKeys),
          SummaryOf(0, 0, {})}

Histories == UNION {[1..n -> SampleSummaries] : n \in 0..MaxHistory}

InitFormat ==
    /\ pc = "history"
    /\ Fresh(ApiConfig)
    /\ retry_index = 0
    /\ attempt_history \in Histories
    /\ history_text = <<>>
    /\ final_state = NoState
    /\ summary = NoSummary

\* RetryStrategy.format_attempt_history(attempt_history)
FormatHistory ==
    /\ pc = "history"
    /\ history_text' = format_attempt_history(attempt_history)
    /\ pc' = "formatted"
    /\ UNCHANGED <<config, main_llm, advisor_llm, created, provider_error, error, returned,
                   ncalls, stable, retry_index, attempt_history, final_state, summary>>

NextFormat == FormatHistory

SpecFormat == InitFormat /\ [][NextFormat]_vars

-----------------------------------------------------------------------------
(* The caller's retry loop: for retry_index in 0..MaxRetries, get_llm_pair, *)
(* run the attempt with the formatted history, and on failure summarize    *)
(* and append.  The loop is the caller's; it is modelled from its          *)
(* description.                                                            *)

\* the caller's retry budget: 5 attempts
MaxRetries == 4

\* raw results of a failed attempt
RawFailed == [action_history |-> PyList(ScenarioLog), messages |-> TwoCalls,
              potential_vulnerabilities |-> ManyFacts, start_time |-> PyStr(TXT_T0)]
RawQuiet == [action_history |-> Absent, messages |-> PyList(<<>>),
             potential_vulnerabilities |-> Absent, start_time |-> Absent]
RawLong == [action_history |->
                PyList([k \in 1..MaxActions |-> PyStr(TXT_FAILED_TIMEOUT)]),
            messages |-> Absent, potential_vulnerabilities |-> PyNone,
            start_time |-> PyNone]
RawMalformed == [action_history |-> PyNone, messages |-> Absent,
                 potential_vulnerabilities |-> Absent, start_time |-> Absent]
RawResults == {RawFailed, RawQuiet, RawLong, RawMalformed}

\* the loop's head: get_llm_pair(retry_index) and format_attempt_history(history)
StartAttempt ==
    /\ pc = "ready"
    /\ retry_index <= MaxRetries
    /\ LET r == get_llm_pair(config, main_llm, advisor_llm, retry_index)
       IN  /\ main_llm' = r.main_llm
           /\ advisor_llm' = r.advisor_llm
           /\ returned' = [returned EXCEPT ![retry_index] =
                  [primary |-> r.primary, advisor |-> r.advisor,
                   description |-> r.description]]
    /\ ncalls' = ncalls + 1
    /\ history_text' = format_attempt_history(attempt_history)
    /\ pc' = "attempt"
    /\ UNCHANGED <<config, created, provider_error, error, stable, retry_index,
                   attempt_history, final_state, summary>>

\* the attempt failed with raw result raw: summarize, append, next index; a
\* TypeError of extract_attempt_summary ends the session
AttemptFails(raw) ==
    /\ pc = "attempt"
    /\ LET s == extract_attempt_summary(raw, returned[retry_index].description)
       IN  /\ final_state' = raw
           /\ summary' = s
           /\ IF s.raised # "none"
              THEN /\ pc' = "crashed"
                   /\ UNCHANGED <<attempt_history, retry_index>>
              ELSE /\ attempt_history' = Append(attempt_history, s)
                   /\ retry_index' = retry_index + 1
                   /\ pc' = IF retry_index < MaxRetries THEN "ready" ELSE "done"
    /\ UNCHANGED <<config, main_llm, advisor_llm, created, provider_error, error,
                   returned, ncalls, stable, history_text>>

\* the attempt solved the task: the loop ends
AttemptSucceeds ==
    /\ pc = "attempt"
    /\ pc' = "done"
    /\ UNCHANGED <<config, main_llm, advisor_llm, created, provider_error, error,
                   returned, ncalls, stable, retry_index, attempt_history, history_text,
                   final_state, summary>>

NextSession ==
    \/ \E em \in ExtOutcomes, ea \in ExtOutcomes : Construct(em, ea)
    \/ StartAttempt
    \/ \E raw \in RawResults : AttemptFails(raw)
    \/ AttemptSucceeds

SpecSession == Init /\ [][NextSession]_vars

-----------------------------------------------------------------------------
(* Reading a rendered text back, for the properties below.                 *)

StartsWith(s, p) == Len(s) >= Len(p) /\ SubSeq(s, 1, Len(p)) = p
EndsWith(s, p) == Len(s) >= Len(p) /\ SubSeq(s, Len(s) - Len(p) + 1, Len(s)) = p

\* number of places where p occurs in s
CountOcc(s, p) == Cardinality({i \in 0..(Len(s) - Len(p)) : SubSeq(s, i + 1, i + Len(p)) = p})

\* the lines of text from position from on, without their newlines
RECURSIVE Lines(_, _)
Lines(text, from) ==
    IF from > Len(text) THEN <<>>
    ELSE IF \A i \in from..Len(text) : text[i] # 10
         THEN <<SubSeq(text, from, Len(text))>>
         ELSE LET b == CHOOSE i \in from..Len(text) :
                           text[i] = 10 /\ \A j \in from..(i - 1) : text[j] # 10
              IN  <<SubSeq(text, from, b - 1)>> \o Lines(text, b + 1)

\* a template line without its newline
Chomp(s) == SubSeq(s, 1, Len(s) - 1)

\* the j-th smallest element of a set of naturals
Nth(S, j) == CHOOSE i \in S : Cardinality({x \in S : x < i}) = j - 1

\* the lines of the j-th section: from its "### " heading to the line before
\* the next heading, or before the closing note
SectionBody(lines, j) ==
    LET starts == {i \in 1..Len(lines) : StartsWith(lines[i], STR_SECTION)}
        first == Nth(starts, j)
        last == IF j < Cardinality(starts) THEN Nth(starts, j + 1) - 1 ELSE Len(lines) - 1
    IN  SubSeq(lines, first, last)

\* the heading lines of the sections, in order
SectionHeadings(text) ==
    LET IsHeading(l) == StartsWith(l, STR_SECTION)
    IN  SelectSeq(Lines(text, 1), IsHeading)

\* a is the letter b in either case (b a lower-case keyword character)
SameIgnoringCase(a, b) == a = b \/ (a \in 65..90 /\ a + 32 = b)

\* text contains keyword, compared case-insensitively
HasKeyword(text) ==
    \E kw \in {KW_FAILED, KW_ERROR, KW_SHIBAI, KW_CUOWU} :
        \E i \in 0..(Len(text) - Len(kw)) :
            \A j \in 1..Len(kw) : SameIgnoringCase(text[i + j], kw[j])

\* the entries of a field that holds a list, none for an absent field
ListItems(field) == IF field.t = "list" THEN field.items ELSE <<>>

IsPrefix(s, t) == Len(s) <= Len(t) /\ SubSeq(t, 1, Len(s)) = s

Min(a, b) == IF a < b THEN a ELSE b

-----------------------------------------------------------------------------
(* Properties.                                                             *)

\* C1: every get_llm_pair(i) that returned has the main handle as primary when
\* i is even and the advisor handle when i is odd, the other handle as advisor,
\* never one handle in both roles; two consecutive indices never share a primary.
C1_RolesAlternate ==
    pc = "ready" =>
        /\ \A i \in 0..MaxIndex :
              returned[i] # NoReturn =>
                  /\ returned[i].primary = (IF i % 2 = 0 THEN created[1] ELSE created[2])
                  /\ returned[i].advisor = (IF i % 2 = 0 THEN created[2] ELSE created[1])
                  /\ returned[i].primary # returned[i].advisor
        /\ \A i \in 0..(MaxIndex - 1) :
              (returned[i] # NoReturn /\ returned[i + 1] # NoReturn) =>
                  returned[i].primary # returned[i + 1].primary

\* the indices 0,1,2,3,4 have all been asked: main, advisor, main, advisor, main
C1_Witness ==
    /\ \A i \in 0..4 : returned[i] # NoReturn
    /\ [i \in 0..4 |-> returned[i].primary]
           = [i \in 0..4 |-> IF i \in {0, 2, 4} THEN created[1] ELSE created[2]]

\* C2 as stated: a summary has at most 10 failed_methods and at most 5 key_findings.
C2_SummaryBounded ==
    (pc = "summarized" /\ summary.raised = "none") =>
        /\ Len(summary.failed_methods) <= 10
        /\ Len(summary.key_findings) <= 5

\* C2 amended: a summary keeps every failing action-log entry and every
\* discovered fact: failed_methods has as many entries as the action log has
\* entries with a failure keyword, key_findings as many as there are facts.
C2_SummaryKeepsAll ==
    (pc = "summarized" /\ summary.raised = "none"
     /\ final_state.action_history.t \in {"list", "absent"}
     /\ final_state.potential_vulnerabilities.t \in {"list", "absent"}) =>
        LET actions == ListItems(final_state.action_history)
            facts == ListItems(final_state.potential_vulnerabilities)
        IN  /\ Len(summary.failed_methods)
                   = Cardinality({k \in 1..Len(actions) : HasKeyword(Str(actions[k]))})
            /\ Len(summary.key_findings) = Len(facts)

\* a summary of more than 10 failing entries and more than 5 facts
C2_Witness ==
    /\ pc = "summarized"
    /\ summary.raised = "none"
    /\ Len(summary.failed_methods) > 10
    /\ Len(summary.key_findings) > 5

\* C3: extract_attempt_summary never raises on an absent or wrong-shaped optional
\* field; each such field becomes an empty sequence (a count of 0) in the summary.
C3_NeverRaises ==
    pc = "summarized" =>
        /\ summary.raised = "none"
        /\ final_state.action_history.t # "list" => summary.failed_methods = <<>>
        /\ final_state.potential_vulnerabilities.t # "list" => summary.key_findings = <<>>
        /\ final_state.messages.t # "list" => summary.attempts = 0

\* C4: failed_methods is the subsequence of the action log's entries whose
\* rendering contains a failure keyword in any case: the others are left out,
\* the order is the log's, duplicates stay.
C4_FailedSubsequence ==
    (pc = "summarized" /\ summary.raised = "none"
     /\ final_state.action_history.t \in {"list", "absent"}) =>
        LET actions == ListItems(final_state.action_history)
            failing == {k \in 1..Len(actions) : HasKeyword(Str(actions[k]))}
        IN  /\ summary.failed_methods
                   = [j \in 1..Cardinality(failing) |-> Str(actions[Nth(failing, j)])]
            /\ final_state.action_history = PyList(ScenarioLog) =>
                   summary.failed_methods = <<TXT_FAILED_TIMEOUT, TXT_CUOWU_INPUT>>

\* the log "ERROR 500", "tool call succeeded", "ERROR 500": an upper-case match
\* twice, a non-match between
C4_Witness ==
    /\ pc = "summarized"
    /\ final_state.action_history
           = PyList(<<PyStr(TXT_ERROR_UPPER), PyStr(TXT_SUCCEEDED), PyStr(TXT_ERROR_UPPER)>>)
    /\ summary.failed_methods = <<TXT_ERROR_UPPER, TXT_ERROR_UPPER>>

\* C5: format_attempt_history returns the empty string for an empty history;
\* for any other history the text starts with the heading, which occurs once,
\* and ends with the closing note, which occurs once.
C5_HeadingAndNoteOnce ==
    pc = "formatted" =>
        IF attempt_history = <<>> THEN history_text = <<>>
        ELSE /\ StartsWith(history_text, STR_HEADING)
             /\ CountOcc(history_text, STR_HEADING) = 1
             /\ EndsWith(history_text, STR_NOTE)
             /\ CountOcc(history_text, STR_NOTE) = 1

\* a history of two or more summaries, formatted
C5_Witness ==
    /\ pc = "formatted"
    /\ Len(attempt_history) >= 2
    /\ CountOcc(history_text, STR_NOTE) = 1

\* C6: section j of the text lists the first min(n, 10) failed methods and the
\* first min(m, 5) key findings of summary j, in order, whatever the other
\* sections hold; each sub-heading is there exactly when its list is not empty.
C6_BulletsPerSection ==
    (pc = "formatted" /\ attempt_history # <<>>) =>
        LET lines == Lines(history_text, 1)
            IsFailedBullet(l) == StartsWith(l, STR_FAILED_BULLET)
            IsFindingBullet(l) == StartsWith(l, STR_FINDING_BULLET)
            IsFailedHead(l) == l = Chomp(STR_FAILED_HEAD)
            IsFindingsHead(l) == l = Chomp(STR_FINDINGS_HEAD)
        IN  /\ Len(SectionHeadings(history_text)) = Len(attempt_history)
            /\ \A j \in 1..Len(attempt_history) :
                  LET body == SectionBody(lines, j)
                      a == attempt_history[j]
                      methods == IF "failed_methods" \in a.keys THEN a.failed_methods ELSE <<>>
                      findings == IF "key_findings" \in a.keys THEN a.key_findings ELSE <<>>
                  IN  /\ SelectSeq(body, IsFailedBullet)
                             = [k \in 1..Min(Len(methods), 10) |->
                                    STR_FAILED_BULLET \o methods[k]]
                      /\ SelectSeq(body, IsFindingBullet)
                             = [k \in 1..Min(Len(findings), 5) |->
                                    STR_FINDING_BULLET \o findings[k]]
                      /\ Len(SelectSeq(body, IsFailedHead)) = (IF methods = <<>> THEN 0 ELSE 1)
                      /\ Len(SelectSeq(body, IsFindingsHead)) = (IF findings = <<>> THEN 0 ELSE 1)

\* two sections, the first of more than 10 failed methods and more than 5
\* findings, the second of neither
C6_Witness ==
    /\ pc = "formatted"
    /\ Len(attempt_history) = 2
    /\ Len(attempt_history[1].failed_methods) > 10
    /\ Len(attempt_history[1].key_findings) > 5
    /\ attempt_history[2].failed_methods = <<>>
    /\ Len(SelectSeq(Lines(history_text, 1),
                     LAMBDA l : StartsWith(l, STR_FAILED_BULLET))) = 10

\* C7: after any get_llm_pair calls the instance holds the two handles created
\* at construction, main first, and no others were created; a call with an
\* index asked before returned the same primary and the same advisor.
C7_HandlesStable ==
    pc = "ready" =>
        /\ Len(created) = 2
        /\ main_llm = created[1]
        /\ advisor_llm = created[2]
        /\ stable

\* several calls, odd and even, one index asked more than once
C7_Witness ==
    /\ pc = "ready"
    /\ ncalls > Cardinality({i \in 0..MaxIndex : returned[i] # NoReturn})
    /\ returned[1] # NoReturn
    /\ returned[2] # NoReturn

\* C8: when a factory call fails, the constructor raises that same error, no
\* instance exists, and no get_llm_pair call has been made or can be.
C8_ConstructionFails ==
    provider_error # "none" =>
        /\ pc = "failed"
        /\ error = provider_error
        /\ ncalls = 0
        /\ \A i \in 0..MaxIndex : returned[i] = NoReturn
        /\ ~ ENABLED (\E i \in 0..MaxIndex : GetLlmPair(i))

\* the main handle was created, the advisor's factory raised ConnectionError
C8_Witness ==
    /\ pc = "failed"
    /\ Len(created) = 1
    /\ error = "ConnectionError"

\* C9: attempt_count is the number of messages that carry a non-empty
\* tool_calls marker, whatever the action log holds.
C9_CountsToolMessages ==
    (pc = "summarized" /\ summary.raised = "none") =>
        LET ms == ListItems(final_state.messages)
        IN  summary.attempts
                = Cardinality({k \in 1..Len(ms) : ms[k].t = "AIMessage" /\ ms[k].n > 0})

\* one message with two calls, one with an empty marker, one without the
\* attribute, beside an action log with failures
C9_Witness ==
    /\ pc = "summarized"
    /\ final_state.messages
           = PyList(<<AIMessage(2, ADDR_B), AIMessage(0, ADDR_A), HumanMessage(ADDR_C)>>)
    /\ summary.attempts = 1
    /\ Len(summary.failed_methods) = 2

\* what holds while attempt retry_index runs
C10_AtAttempt ==
    pc = "attempt" =>
        /\ Len(attempt_history) = retry_index
        /\ \A j \in 1..retry_index :
              attempt_history[j].strategy = returned[j - 1].description
        /\ retry_index = 0 => history_text = <<>>
        /\ SectionHeadings(history_text)
               = [j \in 1..retry_index |->
                      STR_SECTION \o IntToStr(j) \o STR_COLON \o returned[j - 1].description]

\* C10: in the sequential retry loop the history only grows by appending; when
\* attempt k starts it holds k summaries, the j-th of attempt j-1, and the text
\* given to attempt k is empty for k = 0 and else has the k sections numbered
\* 1..k, section j headed by the description get_llm_pair(j-1) returned.
C10_SessionHistory ==
    /\ []C10_AtAttempt
    /\ [][IsPrefix(attempt_history, attempt_history')]_vars

\* the fourth attempt runs, with three summaries behind it
C10_Witness ==
    /\ pc = "attempt"
    /\ retry_index = 3
    /\ Len(SectionHeadings(history_text)) = 3
====
